---- MODULE Spec2Model ----
(***************************************************************************)
(* Model of the 2fa keychain agent (main.go and the 2FAS import file).     *)
(*                                                                         *)
(* The keychain file is modelled byte for byte: a string is a sequence of  *)
(* one-character strings, so that line splitting, field splitting, the     *)
(* counter byte offset and the positioned counter write are computed the   *)
(* way the Go code computes them.                                          *)
(***************************************************************************)
EXTENDS Integers, Sequences, FiniteSets, TLC

(***************************************************************************)
(* Bytes and strings                                                       *)
(***************************************************************************)

\* The printable ASCII characters in code order: Printable[i] has code i + 31
\* (the double quote, the backslash and the back quote are spelled out).
Printable ==
    << " ", "!", "DQUOTE", "#", "$", "%", "&", "'", "(", ")", "*", "+", ",", "-", ".", "/",
       "0", "1", "2", "3", "4", "5", "6", "7", "8", "9", ":", ";", "<", "=", ">", "?",
       "@", "A", "B", "C", "D", "E", "F", "G", "H", "I", "J", "K", "L", "M", "N", "O",
       "P", "Q", "R", "S", "T", "U", "V", "W", "X", "Y", "Z", "[", "BSLASH", "]", "^", "_",
       "BQUOTE", "a", "b", "c", "d", "e", "f", "g", "h", "i", "j", "k", "l", "m", "n", "o",
       "p", "q", "r", "s", "t", "u", "v", "w", "x", "y", "z", "{", "|", "}", "~" >>

NL == "\n"

CR == "\r"

SP == " "

\* The zero byte that fills the gap when a positioned write lands past the end.
NUL == "NUL"

Bytes == {Printable[i] : i \in 1..Len(Printable)} \cup {NL, CR, NUL}

\* The byte value of a character, as a table built once.
RECURSIVE OrdFrom(_)
OrdFrom(i) ==
    IF i > Len(Printable) THEN (NL :> 10) @@ (CR :> 13) @@ (NUL :> 0)
    ELSE (Printable[i] :> (31 + i)) @@ OrdFrom(i + 1)

Ord == OrdFrom(1)

Chr(n) == Printable[n - 31]

\* strings.ToLower / strings.ToUpper on one ASCII byte.
LowerByte(c) == IF Ord[c] >= 65 /\ Ord[c] <= 90 THEN Chr(Ord[c] + 32) ELSE c

UpperByte(c) == IF Ord[c] >= 97 /\ Ord[c] <= 122 THEN Chr(Ord[c] - 32) ELSE c

ToLower(s) == [i \in 1..Len(s) |-> LowerByte(s[i])]

ToUpper(s) == [i \in 1..Len(s) |-> UpperByte(s[i])]

\* Go's < on strings: bytewise lexicographic order.
RECURSIVE StrLess(_, _)
StrLess(s, t) ==
    IF t = <<>> THEN FALSE
    ELSE IF s = <<>> THEN TRUE
    ELSE IF s[1] # t[1] THEN Ord[s[1]] < Ord[t[1]]
    ELSE StrLess(Tail(s), Tail(t))

StrLessEq(s, t) == s = t \/ StrLess(s, t)

\* strings.Repeat of a one-byte string.
Repeat(c, n) == [i \in 1..n |-> c]

\* bytes.Split / strings.Split on a one-byte separator: always at least one field.
\* The position of the first sep of s at or after position i, 0 if none.
IndexFrom(s, sep, i) ==
    IF \E j \in i..Len(s) : s[j] = sep
    THEN CHOOSE j \in i..Len(s) : s[j] = sep /\ \A h \in i..(j - 1) : s[h] # sep
    ELSE 0

\* The fields of s from position i on, j being the position of the next sep.
RECURSIVE SplitFrom(_, _, _, _)
SplitFrom(s, sep, i, j) ==
    IF j = 0 THEN <<SubSeq(s, i, Len(s))>>
    ELSE <<SubSeq(s, i, j - 1)>> \o SplitFrom(s, sep, j + 1, IndexFrom(s, sep, j + 1))

Split(s, sep) == SplitFrom(s, sep, 1, IndexFrom(s, sep, 1))

\* bytes.SplitAfter on "\n": every piece but the last ends with the separator.
RECURSIVE SplitAfterFrom(_, _, _)
SplitAfterFrom(s, i, j) ==
    IF j = 0 THEN <<SubSeq(s, i, Len(s))>>
    ELSE <<SubSeq(s, i, j)>> \o SplitAfterFrom(s, j + 1, IndexFrom(s, NL, j + 1))

SplitAfter(s) == SplitAfterFrom(s, 1, IndexFrom(s, NL, 1))

\* bytes.TrimSuffix(s, "\n").
TrimNL(s) == IF Len(s) > 0 /\ s[Len(s)] = NL THEN SubSeq(s, 1, Len(s) - 1) ELSE s

\* bytes.Join / the %s %d %s of Sprintf: fields joined with one separator.
RECURSIVE Join(_, _)
Join(fs, sep) ==
    IF fs = <<>> THEN <<>>
    ELSE IF Len(fs) = 1 THEN fs[1]
    ELSE fs[1] \o <<sep>> \o Join(Tail(fs), sep)

\* Concatenation of a sequence of strings.
RECURSIVE Concat(_)
Concat(ss) == IF ss = <<>> THEN <<>> ELSE ss[1] \o Concat(Tail(ss))

\* strings.Contains.
Contains(s, sub) ==
    \E i \in 0..(Len(s) - Len(sub)) : SubSeq(s, i + 1, i + Len(sub)) = sub

\* unicode.IsSpace on the bytes of the model.
IsSpace(c) == c = SP \/ c = NL \/ c = CR

\* strings.Map(noSpace, text): drops every white-space byte.
RECURSIVE StripSpace(_)
StripSpace(s) ==
    IF s = <<>> THEN <<>>
    ELSE IF IsSpace(s[1]) THEN StripSpace(Tail(s))
    ELSE <<s[1]>> \o StripSpace(Tail(s))

(***************************************************************************)
(* Codec: decodeKey (base32.StdEncoding.DecodeString of the upper-cased    *)
(* text), computed quantum by quantum as encoding/base32 does.             *)
(***************************************************************************)

PAD == "="

\* decodeMap of the standard alphabet: A-Z are 0..25, 2-7 are 26..31, -1 is invalid.
B32Value(c) ==
    IF Ord[c] >= 65 /\ Ord[c] <= 90 THEN Ord[c] - 65
    ELSE IF Ord[c] >= 50 /\ Ord[c] <= 55 THEN Ord[c] - 24
    ELSE -1

\* The inner loop of decode over one quantum: j characters are in dbuf already.
\* Yields err, or dlen, whether padding ended the input, dbuf and the rest.
RECURSIVE ScanQuantum(_, _, _)
ScanQuantum(src, j, dbuf) ==
    IF j = 8 THEN [err |-> FALSE, dlen |-> 8, end |-> FALSE, dbuf |-> dbuf, rest |-> src]
    ELSE IF src = <<>> THEN [err |-> TRUE]
    ELSE LET in == src[1]
             rest == Tail(src)
         IN  IF in = PAD /\ j >= 2 /\ Len(rest) < 8
             THEN IF Len(rest) + j < 8 - 1 THEN [err |-> TRUE]
                  ELSE IF \E k \in 0..(8 - 1 - j - 1) : Len(rest) > k /\ rest[k + 1] # PAD
                       THEN [err |-> TRUE]
                  ELSE IF j \in {1, 3, 6} THEN [err |-> TRUE]
                  ELSE [err |-> FALSE, dlen |-> j, end |-> TRUE,
                        dbuf |-> dbuf \o Repeat(0, 8 - j), rest |-> rest]
             ELSE IF B32Value(in) = -1 THEN [err |-> TRUE]
             ELSE ScanQuantum(rest, j + 1, Append(dbuf, B32Value(in)))

\* The packing of eight 5-bit values into at most five bytes.
PackQuantum(d, dlen) ==
    LET b0 == d[1] * 8 + d[2] \div 4
        b1 == (d[2] % 4) * 64 + d[3] * 2 + d[4] \div 16
        b2 == (d[4] % 16) * 16 + d[5] \div 2
        b3 == (d[5] % 2) * 128 + d[6] * 4 + d[7] \div 8
        b4 == (d[7] % 8) * 32 + d[8]
    IN  CASE dlen = 8 -> <<b0, b1, b2, b3, b4>>
          [] dlen = 7 -> <<b0, b1, b2, b3>>
          [] dlen = 5 -> <<b0, b1, b2>>
          [] dlen = 4 -> <<b0, b1>>
          [] dlen = 2 -> <<b0>>
          [] OTHER -> <<>>

\* Encoding.decode: quantum after quantum.
RECURSIVE decode(_)
decode(src) ==
    IF src = <<>> THEN [ok |-> TRUE, raw |-> <<>>]
    ELSE LET q == ScanQuantum(src, 0, <<>>)
         IN  IF q.err THEN [ok |-> FALSE, raw |-> <<>>]
             ELSE LET more == IF q.end THEN [ok |-> TRUE, raw |-> <<>>]
                              ELSE decode(q.rest)
                  IN  IF more.ok
                      THEN [ok |-> TRUE, raw |-> PackQuantum(q.dbuf, q.dlen) \o more.raw]
                      ELSE more

\* stripNewlines: every \r and \n is dropped before decoding.
stripNewlines(src) == SelectSeq(src, LAMBDA c : c # NL /\ c # CR)

\* base32.StdEncoding.DecodeString.
Base32Decode(src) == decode(stripNewlines(src))

decodeKey(key) == Base32Decode(ToUpper(key))

\* text += strings.Repeat("=", -len(text)&7): pad to a multiple of 8 bytes.
PadTo8(text) == text \o Repeat(PAD, (8 - (Len(text) % 8)) % 8)

(***************************************************************************)
(* The counter: an unsigned 64-bit value kept as its 20 decimal digits,    *)
(* most significant first (the integers of TLC are 32 bits wide).           *)
(***************************************************************************)

counterLen == 20

\* 2^64 - 1 = 18446744073709551615.
MaxUint64 == <<1, 8, 4, 4, 6, 7, 4, 4, 0, 7, 3, 7, 0, 9, 5, 5, 1, 6, 1, 5>>

IsDigit(c) == Ord[c] >= 48 /\ Ord[c] <= 57

RECURSIVE DigitsLessEq(_, _)
DigitsLessEq(a, b) ==
    IF a = <<>> THEN TRUE
    ELSE IF a[1] # b[1] THEN a[1] < b[1]
    ELSE DigitsLessEq(Tail(a), Tail(b))

DigitsLess(a, b) == a # b /\ DigitsLessEq(a, b)

\* strconv.ParseUint(s, 10, 64) of a field of counterLen bytes: a syntax error on
\* an empty string or a non-digit, a range error above 2^64 - 1.
Digits(s) ==
    Repeat(0, counterLen - Len(s)) \o [i \in 1..Len(s) |-> Ord[s[i]] - 48]

ParseDigits(ds) ==
    IF (\E i \in 1..(Len(ds) - counterLen) : ds[i] # 0)
       \/ ~DigitsLessEq(SubSeq(ds, Len(ds) - counterLen + 1, Len(ds)), MaxUint64)
    THEN [ok |-> FALSE, n |-> <<>>]
    ELSE [ok |-> TRUE, n |-> SubSeq(ds, Len(ds) - counterLen + 1, Len(ds))]

ParseUint(s) ==
    IF s = <<>> \/ \E i \in 1..Len(s) : ~IsDigit(s[i]) THEN [ok |-> FALSE, n |-> <<>>]
    ELSE ParseDigits(Digits(s))

\* n++ on a uint64: 2^64 - 1 wraps to 0.
RECURSIVE AddOne(_)
AddOne(ds) ==
    IF ds = <<>> THEN <<>>
    ELSE IF ds[Len(ds)] < 9 THEN SubSeq(ds, 1, Len(ds) - 1) \o <<ds[Len(ds)] + 1>>
    ELSE AddOne(SubSeq(ds, 1, Len(ds) - 1)) \o <<0>>

Incr(n) == IF n = MaxUint64 THEN Repeat(0, counterLen) ELSE AddOne(n)

\* fmt.Sprintf("%0*d", counterLen, n): the 20 digits, zero padded.
FormatCounter(n) == [i \in 1..Len(n) |-> Chr(n[i] + 48)]

(***************************************************************************)
(* Record store: readKeychain                                              *)
(***************************************************************************)

\* The digit position found by the loop of readKeychain (0-based, -1 if none):
\* the right-most field at index >= 1 that is one byte '6'..'8' and is followed
\* by a non-empty field.
DigitPos(f) ==
    LET ok(i) == /\ Len(f[i + 1]) = 1
                 /\ Ord["6"] <= Ord[f[i + 1][1]] /\ Ord[f[i + 1][1]] <= Ord["8"]
                 /\ i + 1 < Len(f) /\ Len(f[i + 2]) > 0
        hits == {i \in 1..(Len(f) - 1) : ok(i)}
    IN  IF hits = {} THEN -1 ELSE CHOOSE i \in hits : \A j \in hits : j <= i

\* One line of the file, `offset` being the byte offset just after the line:
\* blank (skipped silently), key (a name and its Key) or bad (malformed).
\* Mutant of ParseKey: the offset is taken back by the counter field alone,
\* the line end is not accounted for.
ParseKeyLineEnd(line, offset, f, digitPos, dec) ==
    IF ~dec.ok THEN [kind |-> "bad"]
    ELSE IF Len(f) = digitPos + 2
            \/ (Len(f) = digitPos + 3 /\ Len(f[digitPos + 3]) = counterLen
                                      /\ ParseUint(f[digitPos + 3]).ok)
    THEN [kind |-> "key", name |-> Join(SubSeq(f, 1, digitPos), SP),
          key |-> [raw |-> dec.raw, digits |-> Ord[f[digitPos + 1][1]] - Ord["0"],
                   offset |-> IF Len(f) = digitPos + 2 THEN 0
                              ELSE offset - counterLen]]
    ELSE [kind |-> "bad"]

\* The rest of the loop body once the secret field is decoded (dec): the Key of
\* a line with no counter field has offset 0, the Key of a line with a counter
\* field of counterLen digits the offset of that field.
ParseKey(line, offset, f, digitPos, dec) ==
    IF ~dec.ok THEN [kind |-> "bad"]
    ELSE IF Len(f) = digitPos + 2
            \/ (Len(f) = digitPos + 3 /\ Len(f[digitPos + 3]) = counterLen
                                      /\ ParseUint(f[digitPos + 3]).ok)
    THEN [kind |-> "key", name |-> Join(SubSeq(f, 1, digitPos), SP),
          key |-> [raw |-> dec.raw, digits |-> Ord[f[digitPos + 1][1]] - Ord["0"],
                   offset |-> IF Len(f) = digitPos + 2 THEN 0
                              ELSE (offset - counterLen)
                                   - (IF line[Len(line)] = NL THEN 1 ELSE 0)]]
    ELSE [kind |-> "bad"]

\* The loop body once the line is split into the fields f and the digit
\* position is found.
ParseFields(line, offset, f, digitPos) ==
    IF Len(f) = 1 /\ Len(f[1]) = 0 THEN [kind |-> "blank"]
    ELSE IF ~(digitPos >= 1 /\ digitPos + 1 < Len(f)) THEN [kind |-> "bad"]
    ELSE ParseKey(line, offset, f, digitPos, decodeKey(f[digitPos + 2]))

ParseSplit(line, offset, f) == ParseFields(line, offset, f, DigitPos(f))

ParseLine(line, offset) == ParseSplit(line, offset, Split(TrimNL(line), SP))

\* c.keys[name] = k on a map kept as a function.
MapPut(m, k, v) == [x \in DOMAIN m \cup {k} |-> IF x = k THEN v ELSE m[x]]

EmptyMap == [x \in {} |-> 0]

\* Mutant of ReadLine: the malformed line is logged with its index counted
\* from 0.
ReadLineFromZero(c, i, p) ==
    [data |-> c.data,
     keys |-> IF p.kind = "key" THEN MapPut(c.keys, p.name, p.key) ELSE c.keys,
     warn |-> IF p.kind = "bad" THEN Append(c.warn, i - 1) ELSE c.warn]

\* What line i, parsed as p, does to the keychain c: a key enters the map, a
\* malformed line is logged with its number, a blank line is skipped.
ReadLine(c, i, p) ==
    [data |-> c.data,
     keys |-> IF p.kind = "key" THEN MapPut(c.keys, p.name, p.key) ELSE c.keys,
     warn |-> IF p.kind = "bad" THEN Append(c.warn, i) ELSE c.warn]

\* The loop over the lines: c holds the map so far and the line numbers logged
\* as malformed so far, offset is the byte offset of line i.
RECURSIVE ReadLines(_, _, _, _)
ReadLines(lines, i, offset, c) ==
    IF i > Len(lines) THEN c
    ELSE ReadLines(lines, i + 1, offset + Len(lines[i]),
                   ReadLine(c, i, ParseLine(lines[i], offset + Len(lines[i]))))

\* readKeychain: the Keychain of a file content (a missing file reads as empty).
readKeychain(data) ==
    ReadLines(SplitAfter(data), 1, 0, [data |-> data, keys |-> EmptyMap, warn |-> <<>>])

(***************************************************************************)
(* Record store: rewriteSorted                                             *)
(***************************************************************************)

\* The less function handed to sort.Slice: the lower-cased first
\* space-separated field of each line (strings.Split never yields no field).
lineLess(a, b) == StrLess(ToLower(Split(a, SP)[1]), ToLower(Split(b, SP)[1]))

\* Mutant of InsertLeft: x moves left past the lines it is equal to as well.
RECURSIVE InsertLeftPastEqual(_, _)
InsertLeftPastEqual(sorted, x) ==
    IF sorted = <<>> THEN <<x>>
    ELSE IF ~lineLess(sorted[Len(sorted)], x)
         THEN InsertLeftPastEqual(SubSeq(sorted, 1, Len(sorted) - 1), x)
                  \o <<sorted[Len(sorted)]>>
         ELSE Append(sorted, x)

\* One pass of the inner loop of insertion sort: x moves left while it is less
\* than its left neighbour.
RECURSIVE InsertLeft(_, _)
InsertLeft(sorted, x) ==
    IF sorted = <<>> THEN <<x>>
    ELSE IF lineLess(x, sorted[Len(sorted)])
         THEN InsertLeft(SubSeq(sorted, 1, Len(sorted) - 1), x) \o <<sorted[Len(sorted)]>>
         ELSE Append(sorted, x)

\* sort.Slice on a slice of at most 12 elements is this insertion sort.
RECURSIVE InsertionSort(_, _)
InsertionSort(done, todo) ==
    IF todo = <<>> THEN done
    ELSE InsertionSort(InsertLeft(done, todo[1]), Tail(todo))

sortSlice(lines) == InsertionSort(<<>>, lines)

\* The non-empty lines of c.data, without their line ends.
existingLines(data) ==
    IF Len(data) > 0
    THEN SelectSeq(Split(TrimNL(data), NL), LAMBDA l : Len(l) > 0)
    ELSE <<>>

\* The lines rewriteSorted writes: the existing lines of c.data and the new
\* entries, sorted.
allLines(data, newEntries) == sortSlice(existingLines(data) \o newEntries)

\* The bytes of the first n WriteString calls of rewriteSorted.
writeLines(lines, n) == Concat([i \in 1..n |-> Append(lines[i], NL)])

\* rewriteSorted on the file as it is, from the keychain data loaded: the
\* error returned and the file afterwards. `fail` is the failure the file
\* system answers with: OpenFile fails and the file is untouched, or the
\* WriteString of line fail.at fails after fail.written of its bytes, the file
\* having been truncated at the open.
rewriteSorted(file, data, newEntries, fail) ==
    LET lines == allLines(data, newEntries)
    IN  IF fail.how = "open" THEN [err |-> "opening keychain", file |-> file]
        ELSE IF fail.how = "write" /\ fail.at <= Len(lines)
        THEN [err |-> "writing keychain",
              file |-> writeLines(lines, fail.at - 1)
                           \o SubSeq(lines[fail.at], 1, fail.written)]
        ELSE [err |-> "ok", file |-> writeLines(lines, Len(lines))]

(***************************************************************************)
(* Keychain engine: add                                                    *)
(***************************************************************************)

\* The decimal text of an integer (%d): a minus sign before the digits of a
\* negative one.
RECURSIVE Itoa(_)
Itoa(n) ==
    IF n < 0 THEN <<"-">> \o Itoa(0 - n)
    ELSE IF n < 10 THEN <<Chr(n + 48)>>
    ELSE Append(Itoa(n \div 10), Chr((n % 10) + 48))

\* The record line add and import2fas format.
recordLine(name, size, text, hotp) ==
    name \o <<SP>> \o Itoa(size) \o <<SP>> \o text
         \o (IF hotp THEN <<SP>> \o Repeat("0", 20) ELSE <<>>)

\* add: `typed` is what standard input holds up to and including its first
\* newline, or all of it when it ends without one (ReadString then returns
\* io.EOF). Yields the exit ("ok" or the fatal error) and the file afterwards.
add(file, data, name, f7, f8, hotp, typed, fail) ==
    LET size == IF f7 THEN 7 ELSE IF f8 THEN 8 ELSE 6
        text == PadTo8(StripSpace(typed))
    IN  IF f7 /\ f8 THEN [exit |-> "cannot use -7 and -8 together", file |-> file]
        ELSE IF typed = <<>> \/ typed[Len(typed)] # NL
        THEN [exit |-> "error reading key", file |-> file]
        ELSE IF ~decodeKey(text).ok THEN [exit |-> "invalid key", file |-> file]
        ELSE LET w == rewriteSorted(file, data,
                                    <<recordLine(name, size, text, hotp)>>, fail)
             IN  [exit |-> IF w.err = "ok" THEN "ok" ELSE "adding key",
                  file |-> w.file]

(***************************************************************************)
(* Code generator: hotp over crypto/hmac and crypto/sha1. A 32-bit word is *)
(* the pair of its 16-bit halves, high half first, so that every           *)
(* intermediate value fits the integers of TLC.                            *)
(***************************************************************************)

\* A bitwise operation on the low n bits of a and b, given by its truth
\* table t: t[2x + y + 1] is the result bit for the bits x of a and y of b.
RECURSIVE BitOp(_, _, _, _)
BitOp(t, a, b, n) ==
    IF n = 0 THEN 0
    ELSE t[2 * (a % 2) + (b % 2) + 1] + 2 * BitOp(t, a \div 2, b \div 2, n - 1)

\* &, |, ^ and the complement ^x on uint32.
WAnd(x, y) == <<BitOp(<<0, 0, 0, 1>>, x[1], y[1], 16), BitOp(<<0, 0, 0, 1>>, x[2], y[2], 16)>>

WOr(x, y) == <<BitOp(<<0, 1, 1, 1>>, x[1], y[1], 16), BitOp(<<0, 1, 1, 1>>, x[2], y[2], 16)>>

WXor(x, y) == <<BitOp(<<0, 1, 1, 0>>, x[1], y[1], 16), BitOp(<<0, 1, 1, 0>>, x[2], y[2], 16)>>

WNot(x) == <<65535 - x[1], 65535 - x[2]>>

\* + on uint32: the carry of the low halves goes to the high halves, the
\* carry of the high halves is dropped.
WAdd(x, y) ==
    <<(x[1] + y[1] + (x[2] + y[2]) \div 65536) % 65536, (x[2] + y[2]) % 65536>>

\* bits.RotateLeft32(x, n) for 0 < n < 16.
RotateLeft(x, n) ==
    <<((x[1] * 2^n) % 65536) + x[2] \div 2^(16 - n),
      ((x[2] * 2^n) % 65536) + x[1] \div 2^(16 - n)>>

\* The initial chaining value of SHA-1 and the constants of its four stages.
sha1Init ==
    <<<<26437, 8961>>, <<61389, 43913>>, <<39098, 56574>>, <<4146, 21622>>,
      <<50130, 57840>>>>

sha1K == <<<<23170, 31129>>, <<28377, 60321>>, <<36635, 48348>>, <<51810, 49622>>>>

\* The function f of round i (0-based) applied to b, c, d.
sha1F(i, b, c, d) ==
    IF i < 20 THEN WOr(WAnd(b, c), WAnd(WNot(b), d))
    ELSE IF i < 40 THEN WXor(WXor(b, c), d)
    ELSE IF i < 60 THEN WOr(WAnd(WOr(b, c), d), WAnd(b, c))
    ELSE WXor(WXor(b, c), d)

\* The word of the message schedule for round i >= 16, from the ring w of 16
\* words (w[j + 1] is the word of index j).
sha1W(w, i) ==
    RotateLeft(WXor(WXor(w[((i - 3) % 16) + 1], w[((i - 8) % 16) + 1]),
                    WXor(w[((i - 14) % 16) + 1], w[(i % 16) + 1])), 1)

\* The ring of the message schedule at round i: from round 16 on the word of
\* index i mod 16 is replaced.
sha1Ring(w, i) == IF i < 16 THEN w ELSE [w EXCEPT ![(i % 16) + 1] = sha1W(w, i)]

\* Round i on the state s = <<a, b, c, d, e>>, w being the ring at round i.
\* bits.RotateLeft32(b, 30): the halves change places, then 14 more bits.
sha1Round(i, w, s) ==
    <<WAdd(WAdd(WAdd(WAdd(RotateLeft(s[1], 5), sha1F(i, s[2], s[3], s[4])), s[5]),
                w[(i % 16) + 1]), sha1K[(i \div 20) + 1]),
      s[1], RotateLeft(<<s[2][2], s[2][1]>>, 14), s[3], s[4]>>

\* One loop of the block function: the rounds i..(to - 1) on the ring w and
\* the state s; yields the ring and the state after them. (The binders make
\* TLC compute each round before it goes on to the next.)
RECURSIVE sha1Loop(_, _, _, _)
sha1Loop(i, to, w, s) ==
    IF i = to THEN <<w, s>>
    ELSE CHOOSE r \in { sha1Loop(i + 1, to, v, t) :
                            v \in {sha1Ring(w, i)},
                            t \in {sha1Round(i, sha1Ring(w, i), s)} } : TRUE

\* The round each of the five loops of the block function stops before.
sha1Loops == <<16, 20, 40, 60, 80>>

\* The loops k.. of the block function, ws being the ring and the state
\* before loop k; yields the state after round 79.
RECURSIVE sha1Rounds(_, _)
sha1Rounds(k, ws) ==
    IF k > Len(sha1Loops) THEN ws[2]
    ELSE CHOOSE r \in { sha1Rounds(k + 1, t) :
                            t \in {sha1Loop(IF k = 1 THEN 0 ELSE sha1Loops[k - 1],
                                            sha1Loops[k], ws[1], ws[2])} } : TRUE

\* The 16 big-endian words of a block p of 64 bytes.
sha1Words(p) ==
    [j \in 1..16 |-> <<p[4 * j - 3] * 256 + p[4 * j - 2], p[4 * j - 1] * 256 + p[4 * j]>>]

\* block: the chaining value h after the block p.
sha1Block(h, p) ==
    LET s == sha1Rounds(1, <<sha1Words(p), h>>)
    IN  [j \in 1..5 |-> WAdd(h[j], s[j])]

\* The blocks of the padded message from byte position i on.
RECURSIVE sha1Blocks(_, _, _)
sha1Blocks(h, padded, i) ==
    IF i > Len(padded) THEN h
    ELSE sha1Blocks(sha1Block(h, SubSeq(padded, i, i + 63)), padded, i + 64)

\* The padding of a message: the byte 0x80, zero bytes up to 56 modulo 64, the
\* length in bits as 8 big-endian bytes (messages here are below 8192 bytes).
sha1Pad(msg) ==
    msg \o <<128>> \o [i \in 1..((119 - Len(msg)) % 64) |-> 0]
        \o <<0, 0, 0, 0, 0, 0, (8 * Len(msg)) \div 256, (8 * Len(msg)) % 256>>

\* The four big-endian bytes of each word of h.
RECURSIVE sha1Bytes(_)
sha1Bytes(h) ==
    IF h = <<>> THEN <<>>
    ELSE <<h[1][1] \div 256, h[1][1] % 256, h[1][2] \div 256, h[1][2] % 256>>
             \o sha1Bytes(Tail(h))

\* sha1: the 20 bytes of the digest of a sequence of bytes.
sha1(msg) == sha1Bytes(sha1Blocks(sha1Init, sha1Pad(msg), 1))

\* hmac.New(sha1.New, key): a key above the block size is hashed, the key is
\* filled with zero bytes to the block size.
hmacKey(key) ==
    (IF Len(key) > 64 THEN sha1(key) ELSE key)
        \o [i \in 1..(64 - (IF Len(key) > 64 THEN 20 ELSE Len(key))) |-> 0]

hmacPad(k, c) == [i \in 1..64 |-> BitOp(<<0, 1, 1, 0>>, k[i], c, 8)]

\* h.Write(msg); h.Sum(nil).
hmacSum(k, msg) == sha1(hmacPad(k, 92) \o sha1(hmacPad(k, 54) \o msg))

hmacSha1(key, msg) == hmacSum(hmacKey(key), msg)

\* The quotient (as decimal digits) and the remainder of the number of decimal
\* digits ds by k, rem being the remainder carried in and q the digits so far.
RECURSIVE DivDigits(_, _, _, _)
DivDigits(ds, k, rem, q) ==
    IF ds = <<>> THEN [q |-> q, r |-> rem]
    ELSE DivDigits(Tail(ds), k, (rem * 10 + ds[1]) % k, Append(q, (rem * 10 + ds[1]) \div k))

\* binary.Write(h, binary.BigEndian, counter): the k low bytes of the counter,
\* most significant first.
RECURSIVE bigEndian(_, _)
bigEndianNext(d, k) == Append(bigEndian(d.q, k - 1), d.r)

bigEndian(n, k) == IF k = 0 THEN <<>> ELSE bigEndianNext(DivDigits(n, 256, 0, <<>>), k)

\* Mutant of dynamicTruncate: the four bytes are read at offset 0.
dynamicTruncateFixed(sum) ==
    (sum[1] % 128) * 16777216 + sum[2] * 65536 + sum[3] * 256 + sum[4]

\* binary.BigEndian.Uint32(sum[sum[len(sum)-1]&0x0F:]) & 0x7FFFFFFF: the four
\* bytes at the offset the low four bits of the last byte give, the top bit
\* masked off.
dynamicTruncate(sum) ==
    (sum[(sum[Len(sum)] % 16) + 1] % 128) * 16777216
        + sum[(sum[Len(sum)] % 16) + 2] * 65536
        + sum[(sum[Len(sum)] % 16) + 3] * 256
        + sum[(sum[Len(sum)] % 16) + 4]

\* Mutant of hotpModulus: the loop does not stop at the digit count.
RECURSIVE hotpModulusEight(_, _, _)
hotpModulusEight(i, digits, d) ==
    IF i < 8 THEN hotpModulusEight(i + 1, digits, d * 10) ELSE d

\* d after `for i := 0; i < digits && i < 8; i++ { d *= 10 }` from round i on
\* (d is a uint32; at most 10^8 here).
RECURSIVE hotpModulus(_, _, _)
hotpModulus(i, digits, d) ==
    IF i < digits /\ i < 8 THEN hotpModulus(i + 1, digits, d * 10) ELSE d

\* The value hotp returns for the HMAC sum.
hotpValue(sum, digits) == dynamicTruncate(sum) % hotpModulus(0, digits, 1)

\* hotp: the code of a key (raw bytes), a counter and a digit count.
hotp(key, counter, digits) == hotpValue(hmacSha1(key, bigEndian(counter, 8)), digits)

\* fmt.Sprintf("%0*d", width, n) for n >= 0: zeros on the left up to the
\* width, the digits of n in full if they are more.
Sprintf0(width, n) == Repeat("0", width - Len(Itoa(n))) \o Itoa(n)

(***************************************************************************)
(* Keychain engine: code                                                   *)
(***************************************************************************)

\* Mutant of WriteAt: the bytes are inserted at off, nothing is overwritten.
WriteAtInsert(file, b, off, written) ==
    LET base == IF Len(file) < off THEN file \o Repeat(NUL, off - Len(file)) ELSE file
    IN  IF written = 0 THEN file
        ELSE SubSeq(base, 1, off) \o SubSeq(b, 1, written)
                 \o SubSeq(base, off + 1, Len(base))

\* f.WriteAt(b, off) of the first `written` bytes of b on a file content: bytes
\* past the end extend the file, a gap before off reads as zero bytes. A
\* write of no byte leaves the file as it is, its length included.
WriteAt(file, b, off, written) ==
    LET base == IF Len(file) < off THEN file \o Repeat(NUL, off - Len(file)) ELSE file
        w == SubSeq(b, 1, written)
    IN  IF w = <<>> THEN file
        ELSE SubSeq(base, 1, off) \o w \o SubSeq(base, off + Len(w) + 1, Len(base))

\* No failure of the file system.
NoFail == [how |-> "none", written |-> counterLen]

\* Mutant of code: the errors of WriteAt and Close are not checked, the code
\* is returned whatever became of the write.
codeUnchecked(c, name, file, fail) ==
    LET k == c.keys[name]
        p == ParseUint(SubSeq(c.data, k.offset + 1, k.offset + counterLen))
        n == Incr(p.n)
    IN  IF name \notin DOMAIN c.keys
        THEN [exit |-> "no such key", file |-> file, out |-> <<>>]
        ELSE IF k.offset = 0
        THEN [exit |-> "ok", file |-> file,
              out |-> <<[name |-> name, kind |-> "totp", raw |-> k.raw, ctr |-> <<>>,
                         digits |-> k.digits]>>]
        ELSE IF ~p.ok
        THEN [exit |-> "malformed key counter", file |-> file, out |-> <<>>]
        ELSE IF fail.how = "open"
        THEN [exit |-> "opening keychain", file |-> file, out |-> <<>>]
        ELSE [exit |-> "ok",
              file |-> WriteAt(file, FormatCounter(n), k.offset, fail.written),
              out |-> <<[name |-> name, kind |-> "hotp", raw |-> k.raw, ctr |-> n,
                         digits |-> k.digits]>>]

\* Mutant of code: the counter is read from the file as it is at the call,
\* not from the bytes loaded at the start.
codeLive(c, name, file, fail) ==
    LET k == c.keys[name]
        p == ParseUint(SubSeq(file, k.offset + 1, k.offset + counterLen))
        n == Incr(p.n)
    IN  IF name \notin DOMAIN c.keys
        THEN [exit |-> "no such key", file |-> file, out |-> <<>>]
        ELSE IF k.offset = 0
        THEN [exit |-> "ok", file |-> file,
              out |-> <<[name |-> name, kind |-> "totp", raw |-> k.raw, ctr |-> <<>>,
                         digits |-> k.digits]>>]
        ELSE IF ~p.ok
        THEN [exit |-> "malformed key counter", file |-> file, out |-> <<>>]
        ELSE IF fail.how # "none"
        THEN [exit |-> "updating keychain", file |-> file, out |-> <<>>]
        ELSE [exit |-> "ok",
              file |-> WriteAt(file, FormatCounter(n), k.offset, counterLen),
              out |-> <<[name |-> name, kind |-> "hotp", raw |-> k.raw, ctr |-> n,
                         digits |-> k.digits]>>]

\* code: the code of key `name` of keychain c, `file` being the file content at
\* the time of the call and `fail` the failure the file system answers with.
\* Yields the exit, the file afterwards and the codes returned (none or one).
\* A code is the triple hotp is applied to: the HMAC itself is not computed.
code(c, name, file, fail) ==
    LET k == c.keys[name]
        field == SubSeq(c.data, k.offset + 1, k.offset + counterLen)
        p == ParseUint(field)
        n == Incr(p.n)
        hotpCode == [name |-> name, kind |-> "hotp", raw |-> k.raw, ctr |-> n,
                     digits |-> k.digits]
        totpCode == [name |-> name, kind |-> "totp", raw |-> k.raw, ctr |-> <<>>,
                     digits |-> k.digits]
    IN  IF name \notin DOMAIN c.keys
        THEN [exit |-> "no such key", file |-> file, out |-> <<>>]
        ELSE IF k.offset = 0
        THEN [exit |-> "ok", file |-> file, out |-> <<totpCode>>]
        ELSE IF ~p.ok
        THEN [exit |-> "malformed key counter", file |-> file, out |-> <<>>]
        ELSE IF fail.how = "open"
        THEN [exit |-> "opening keychain", file |-> file, out |-> <<>>]
        ELSE IF fail.how = "write"
        THEN [exit |-> "updating keychain",
              file |-> WriteAt(file, FormatCounter(n), k.offset, fail.written),
              out |-> <<>>]
        ELSE IF fail.how = "close"
        THEN [exit |-> "updating keychain",
              file |-> WriteAt(file, FormatCounter(n), k.offset, counterLen),
              out |-> <<>>]
        ELSE [exit |-> "ok",
              file |-> WriteAt(file, FormatCounter(n), k.offset, counterLen),
              out |-> <<hotpCode>>]

\* The calls of code for a list of names, one after the other on the same
\* loaded keychain; the call number failAt (0: none) meets the failure `fail`.
\* A fatal exit ends the run: the codes printed before it stay printed.
RECURSIVE codeEach(_, _, _, _, _, _, _)
codeNext(c, names, i, out, failAt, fail, r) ==
    IF r.exit # "ok" THEN [exit |-> r.exit, file |-> r.file, out |-> out]
    ELSE codeEach(c, names, i + 1, r.file, out \o r.out, failAt, fail)

codeEach(c, names, i, file, out, failAt, fail) ==
    IF i > Len(names) THEN [exit |-> "ok", file |-> file, out |-> out]
    ELSE codeNext(c, names, i, out, failAt, fail,
                  code(c, names[i], file, IF i = failAt THEN fail ELSE NoFail))

(***************************************************************************)
(* Resolver: fuzzyMatch over github.com/lithammer/fuzzysearch/fuzzy        *)
(***************************************************************************)

\* fuzzy.Match: every character of source occurs in target, each after the
\* match of the one before.
RECURSIVE fuzzyScan(_, _)
fuzzyScan(source, target) ==
    IF source = <<>> THEN TRUE
    ELSE LET hits == {i \in 1..Len(target) : target[i] = source[1]}
         IN  IF hits = {} THEN FALSE
             ELSE LET i == CHOOSE h \in hits : \A g \in hits : h <= g
                  IN  fuzzyScan(Tail(source), SubSeq(target, i + 1, Len(target)))

fuzzyMatches(source, target) ==
    IF Len(target) - Len(source) < 0 THEN FALSE
    ELSE IF Len(target) = Len(source) /\ source = target THEN TRUE
    ELSE fuzzyScan(source, target)

\* fuzzy.RankFind: the targets that match, in the order of `targets` (the
\* Ranks it returns are not sorted). Only Rank.Target is read by the caller.
RankFind(source, targets) == SelectSeq(targets, LAMBDA t : fuzzyMatches(source, t))

\* The inner loop of fuzzyMatch: the first name whose lower-cased form is target.
firstWithLower(allNames, lowerNames, target) ==
    allNames[CHOOSE i \in 1..Len(lowerNames) :
                /\ lowerNames[i] = target
                /\ \A j \in 1..(i - 1) : lowerNames[j] # target]

\* sort.Strings of a set of strings.
RECURSIVE sortStrings(_)
sortStrings(S) ==
    IF S = {} THEN <<>>
    ELSE LET m == CHOOSE x \in S : \A y \in S : StrLessEq(x, y)
         IN  <<m>> \o sortStrings(S \ {m})

\* fuzzyMatch: allNames is the order in which `range c.keys` yields the names.
fuzzyMatch(keys, search, allNames) ==
    LET low == ToLower(search)
        lowerNames == [i \in 1..Len(allNames) |-> ToLower(allNames[i])]
        ranks == RankFind(low, lowerNames)
    IN  IF Len(ranks) > 0
        THEN [i \in 1..Len(ranks) |-> firstWithLower(allNames, lowerNames, ranks[i])]
        ELSE sortStrings({name \in DOMAIN keys : Contains(ToLower(name), low)})

\* The orders a range over the map may yield: every permutation of its names.
MapOrders(keys) ==
    LET S == DOMAIN keys
        n == Cardinality(S)
    IN  {f \in [1..n -> S] : \A i, j \in 1..n : i # j => f[i] # f[j]}

(***************************************************************************)
(* Keychain engine: show, showAll, list                                    *)
(***************************************************************************)

\* Mutant of showCalls: no test for an exact match, every name goes through
\* the fuzzy matcher.
showCallsFuzzyOnly(c, name, allNames) == fuzzyMatch(c.keys, name, allNames)

\* The names show calls code for: the name itself if it is stored, else the
\* fuzzy matches.
showCalls(c, name, allNames) ==
    IF name \in DOMAIN c.keys THEN <<name>> ELSE fuzzyMatch(c.keys, name, allNames)

\* How show ends once the codes of n matches are printed: several matches end
\* with os.Exit(1).
showExit(c, name, n) ==
    IF name \in DOMAIN c.keys \/ n = 1 THEN "ok" ELSE "multiple matches"

\* show: the codes printed, the exit and the file afterwards, with the names
\* code was called for.
showEnd(c, name, calls, r) ==
    [exit |-> IF r.exit = "ok" THEN showExit(c, name, Len(calls)) ELSE r.exit,
     file |-> r.file, out |-> r.out, calls |-> calls]

showEach(c, name, calls, file, failAt, fail) ==
    IF Len(calls) = 0
    THEN [exit |-> "no such key", file |-> file, out |-> <<>>, calls |-> <<>>]
    ELSE showEnd(c, name, calls, codeEach(c, calls, 1, file, <<>>, failAt, fail))

show(c, name, allNames, file, failAt, fail) ==
    showEach(c, name, showCalls(c, name, allNames), file, failAt, fail)

\* The line showAll prints for a counter-based key: digits dashes, no code.
dashes(name, k) ==
    [name |-> name, kind |-> "dash", raw |-> <<>>, ctr |-> <<>>, digits |-> k.digits]

\* Mutant of showAllEach: code is called for every key, counter-based or not.
RECURSIVE showAllEachAdvancing(_, _, _, _, _)
showAllEachAdvancing(c, names, i, file, out) ==
    IF i > Len(names) THEN [exit |-> "ok", file |-> file, out |-> out]
    ELSE LET r == code(c, names[i], file, NoFail)
         IN  IF r.exit # "ok" THEN [exit |-> r.exit, file |-> r.file, out |-> out]
             ELSE showAllEachAdvancing(c, names, i + 1, r.file, out \o r.out)

\* showAll: one line per key in sort.Strings order; code is called for the
\* keys whose offset is 0 only.
RECURSIVE showAllEach(_, _, _, _, _)
showAllNext(c, names, i, out, r) ==
    IF r.exit # "ok" THEN [exit |-> r.exit, file |-> r.file, out |-> out]
    ELSE showAllEach(c, names, i + 1, r.file, out \o r.out)

showAllEach(c, names, i, file, out) ==
    IF i > Len(names) THEN [exit |-> "ok", file |-> file, out |-> out]
    ELSE showAllNext(c, names, i, out,
            IF c.keys[names[i]].offset = 0 THEN code(c, names[i], file, NoFail)
            ELSE [exit |-> "ok", file |-> file,
                  out |-> <<dashes(names[i], c.keys[names[i]])>>])

showAll(c, file) == showAllEach(c, sortStrings(DOMAIN c.keys), 1, file, <<>>)

\* list: the names in sort.Strings order.
list(c) == sortStrings(DOMAIN c.keys)

(***************************************************************************)
(* Import of a 2FAS export                                                 *)
(***************************************************************************)

\* strings.ReplaceAll(s, " ", "_").
Underscore(s) == [i \in 1..Len(s) |-> IF s[i] = SP THEN "_" ELSE s[i]]

\* getServiceName: serviceName/account, or whichever of the two is there.
getServiceName(service) ==
    LET serviceName == IF service.Name # <<>> THEN Underscore(service.Name)
                       ELSE IF service.Issuer # <<>> THEN Underscore(service.Issuer)
                       ELSE <<>>
        account == IF service.Account # <<>> THEN service.Account
                   ELSE IF service.Label # <<>> THEN service.Label
                   ELSE <<>>
    IN  IF serviceName # <<>> /\ account # <<>> THEN serviceName \o <<"/">> \o account
        ELSE IF serviceName # <<>> THEN serviceName
        ELSE IF account # <<>> THEN account
        ELSE <<>>

\* The loop of import2fas over the services of the export: the new record
\* lines and the log lines (skipped services) in order. c.keys is the map as
\* loaded: the loop does not add to it.
RECURSIVE importEach(_, _, _, _, _)
importEach(keys, services, i, newEntries, log) ==
    IF i > Len(services) THEN [newEntries |-> newEntries, log |-> log]
    ELSE LET service == services[i]
             name == getServiceName(service)
             secret == PadTo8(StripSpace(service.Secret))
             digits == IF service.Digits = 0 THEN 6 ELSE service.Digits
             line == recordLine(name, digits, secret, service.TokenType = "HOTP")
         IN  IF name = <<>>
             THEN importEach(keys, services, i + 1, newEntries,
                             Append(log, [skip |-> "no name", at |-> i]))
             ELSE IF name \in DOMAIN keys
             THEN importEach(keys, services, i + 1, newEntries,
                             Append(log, [skip |-> "already exists", at |-> i]))
             ELSE IF ~decodeKey(secret).ok
             THEN importEach(keys, services, i + 1, newEntries,
                             Append(log, [skip |-> "invalid secret key", at |-> i]))
             ELSE importEach(keys, services, i + 1, Append(newEntries, line), log)

\* import2fas after the loop: the exit ("ok" or the fatal error of a failed
\* rewriteSorted), the file afterwards, the number of services imported and
\* the log. The file is rewritten when a service was imported.
importEnd(file, c, r, fail) ==
    LET w == IF Len(r.newEntries) > 0
             THEN rewriteSorted(file, c.data, r.newEntries, fail)
             ELSE [err |-> "ok", file |-> file]
    IN  [exit |-> IF w.err = "ok" THEN "ok" ELSE "rewriting keychain",
         file |-> w.file,
         imported |-> Len(r.newEntries), newEntries |-> r.newEntries, log |-> r.log]

import2fas(file, c, services, fail) ==
    importEnd(file, c, importEach(c.keys, services, 1, <<>>, <<>>), fail)

(***************************************************************************)
(* State: the keychain file and the invocation of the program that runs    *)
(***************************************************************************)

VARIABLES
    file,   \* the bytes of $HOME/.2fa (a missing file and an empty one read alike)
    pre,    \* the bytes of the file when the invocation loaded it
    op,     \* the invocation: its command and arguments ("none": no process runs)
    out,    \* what the invocation printed: codes, names or the import count
    exit,   \* how the invocation ended: "ok" or the fatal error
    hist,   \* per name, the counters of the codes returned since the last rewrite,
            \* in the order of their positioned writes
    procs   \* the invocations that run side by side, each with what it loaded

vars == <<file, pre, op, out, exit, hist, procs>>

\* Bounds of the exploration.
MaxLines == 2

MaxServices == 2

MaxCount == 2

MaxKeys == 2

NProcs == 3

\* Key names given on the command line, two of them equal but for case, one
\* with a space.
Names == { <<"a", "b">>, <<"A", "b">>, <<"a", "b", " ", "c">> }

\* Names asked for: a stored name, a common prefix, a suffix, a stranger.
Queries == { <<"a", "b">>, <<"a">>, <<"c">>, <<"x">> }

\* The -7 and -8 flags and the line typed at the prompt: the flags alone and
\* together, a secret in either case and with white space, an empty one, one
\* with a byte outside the alphabet and one whose input ends without a
\* newline.
AddForms ==
    { [f7 |-> FALSE, f8 |-> FALSE, typed |-> <<"m", "y", NL>>],
      [f7 |-> TRUE,  f8 |-> FALSE, typed |-> <<"M", " ", "Y", NL>>],
      [f7 |-> FALSE, f8 |-> TRUE,  typed |-> <<NL>>],
      [f7 |-> TRUE,  f8 |-> TRUE,  typed |-> <<"m", "y", NL>>],
      [f7 |-> FALSE, f8 |-> FALSE, typed |-> <<"m", "1", NL>>],
      [f7 |-> FALSE, f8 |-> FALSE, typed |-> <<"m", "y">>] }

\* The services of a 2FAS export after json.Unmarshal.
Service(name, account, secret, digits, tokenType) ==
    [Name |-> name, Issuer |-> <<>>, Account |-> account, Label |-> <<>>,
     Secret |-> secret, Digits |-> digits, TokenType |-> tokenType]

Services ==
    { Service(<<"a", "b">>, <<>>, <<"m", "y">>, 0, "TOTP"),
      Service(<<"a">>, <<"c">>, <<"M", "Y">>, 8, "HOTP"),
      Service(<<"A", "b">>, <<>>, <<"m", "1">>, 6, "TOTP"),
      Service(<<>>, <<>>, <<"m", "y">>, 6, "TOTP"),
      Service(<<"b">>, <<>>, <<"m", "y">>, -1, "TOTP") }

Exports == UNION {[1..n -> Services] : n \in 0..MaxServices}

\* The number of non-empty lines of a file content.
LineCount(data) == Len(existingLines(data))

\* The stored counter of a counter-based key of a loaded keychain.
storedCounter(c, name) ==
    ParseUint(SubSeq(c.data, c.keys[name].offset + 1, c.keys[name].offset + counterLen)).n

\* Every stored counter is below the bound of the exploration, or is the
\* greatest counter, whose successor is 0.
CountersBelow(c, max) ==
    \A name \in DOMAIN c.keys :
        c.keys[name].offset # 0 =>
            \/ \E v \in 0..(max - 1) :
                    storedCounter(c, name) = Repeat(0, counterLen - 1) \o <<v>>
            \/ storedCounter(c, name) = MaxUint64

\* The failures of the file system a counter advance may meet: the open
\* fails, the positioned write fails after a prefix of the bytes (nothing,
\* one byte, all but the last byte), the close fails.
Failures ==
    {[how |-> "open", written |-> 0], [how |-> "close", written |-> counterLen]}
        \cup {[how |-> "write", written |-> w] : w \in {0, 1, counterLen - 1}}

\* The failures rewriteSorted can meet writing at most n lines: none, that
\* of OpenFile, and that of a WriteString after none or one of its bytes.
RewriteFailures(n) ==
    {NoFail, [how |-> "open", at |-> 0, written |-> 0]}
        \cup {[how |-> "write", at |-> k, written |-> w] : k \in 1..n, w \in 0..1}

\* Which call of code fails, and how: none, or one of the n calls at most.
FailureChoices(n) == {<<0, NoFail>>} \cup ((1..n) \X Failures)

\* The record lines of the keychains the show commands start from: two
\* counter-based keys, one name a prefix of the other, and a time-based key
\* whose name is that prefix but for case.
ShowLines ==
    { recordLine(<<"a", "b">>, 6, PadTo8(<<"m", "y">>), TRUE),
      recordLine(<<"a", "b", " ", "c">>, 6, PadTo8(<<"m", "y">>), TRUE),
      recordLine(<<"A", "b">>, 6, PadTo8(<<"m", "y">>), FALSE) }

\* Keychain files of at most MaxKeys records, written by rewriteSorted.
ShowFiles ==
    {writeLines(allLines(<<>>, ls), Len(ls)) :
        ls \in UNION {[1..k -> ShowLines] : k \in 0..MaxKeys}}

Idle == op.cmd = "none"

\* The history after the codes `codes` were returned: each counter-based code
\* adds its counter to the counters of its name.
RECURSIVE Returned(_, _)
Returned(h, codes) ==
    IF codes = <<>> THEN h
    ELSE LET k == codes[1]
             old == IF k.name \in DOMAIN h THEN h[k.name] ELSE <<>>
         IN  Returned(IF k.kind = "hotp" THEN MapPut(h, k.name, Append(old, k.ctr)) ELSE h,
                      Tail(codes))

Init ==
    /\ file = <<>>
    /\ pre = <<>>
    /\ op = [cmd |-> "none"]
    /\ out = <<>>
    /\ exit = "ok"
    /\ hist = EmptyMap
    /\ procs = <<>>

\* 2fa -add [-7] [-8] [-hotp] name
Add ==
    /\ Idle
    /\ LineCount(file) < MaxLines
    /\ \E name \in Names, form \in AddForms, flagHotp \in BOOLEAN :
        \E fail \in RewriteFailures(LineCount(file) + 1) :
            \E r \in {add(file, readKeychain(file).data, name, form.f7, form.f8,
                           flagHotp, form.typed, fail)} :
                /\ file' = r.file
                /\ pre' = file
                /\ op' = [cmd |-> "add", name |-> name, f7 |-> form.f7,
                          f8 |-> form.f8, hotp |-> flagHotp, typed |-> form.typed,
                          how |-> IF r.exit = "adding key" THEN fail.how ELSE "none"]
                /\ out' = <<>>
                /\ exit' = r.exit
                /\ hist' = IF r.file # file THEN EmptyMap ELSE hist
                /\ UNCHANGED procs

\* 2fa -import 2fas file
Import ==
    /\ Idle
    /\ \E c \in {readKeychain(file)} :
           \E services \in Exports :
            /\ LineCount(file) + Len(services) <= MaxLines
            /\ \E fail \in RewriteFailures(LineCount(file) + Len(services)) :
                \E r \in {import2fas(file, c, services, fail)} :
                    /\ file' = r.file
                    /\ pre' = file
                    /\ op' = [cmd |-> "import", services |-> services,
                              how |-> IF r.exit = "rewriting keychain" THEN fail.how
                                      ELSE "none"]
                    /\ out' = <<[imported |-> r.imported, log |-> r.log]>>
                    /\ exit' = r.exit
                    /\ hist' = IF r.imported > 0 THEN EmptyMap ELSE hist
                    /\ UNCHANGED procs

\* 2fa name
Show ==
    /\ Idle
    /\ \E c \in {readKeychain(file)} :
           /\ CountersBelow(c, MaxCount)
           /\ \E name \in Queries, allNames \in MapOrders(c.keys) :
                \E fc \in FailureChoices(Len(showCalls(c, name, allNames))) :
                    \E r \in {show(c, name, allNames, file, fc[1], fc[2])} :
                        /\ file' = r.file
                        /\ pre' = file
                        /\ op' = [cmd |-> "show", name |-> name, calls |-> r.calls,
                                  failAt |-> fc[1], how |-> fc[2].how]
                        /\ out' = r.out
                        /\ exit' = r.exit
                        /\ hist' = Returned(hist, r.out)
                        /\ UNCHANGED procs

\* 2fa
ShowAll ==
    /\ Idle
    /\ \E r \in {showAll(readKeychain(file), file)} :
           /\ file' = r.file
           /\ pre' = file
           /\ op' = [cmd |-> "showAll"]
           /\ out' = r.out
           /\ exit' = r.exit
           /\ hist' = Returned(hist, r.out)
           /\ UNCHANGED procs

\* 2fa -list
List ==
    /\ Idle
    /\ file' = file
    /\ pre' = file
    /\ op' = [cmd |-> "list"]
    /\ out' = list(readKeychain(file))
    /\ exit' = "ok"
    /\ UNCHANGED <<hist, procs>>

\* The process exits: nothing of an invocation outlives it but the file.
Exit ==
    /\ ~Idle
    /\ pre' = <<>>
    /\ op' = [cmd |-> "none"]
    /\ out' = <<>>
    /\ exit' = "ok"
    /\ UNCHANGED <<file, hist, procs>>

Next == Add \/ Import \/ Show \/ ShowAll \/ List \/ Exit

Spec == Init /\ [][Next]_vars

\* The show commands on the keychains of ShowFiles.
InitShow ==
    /\ file \in ShowFiles
    /\ pre = <<>>
    /\ op = [cmd |-> "none"]
    /\ out = <<>>
    /\ exit = "ok"
    /\ hist = EmptyMap
    /\ procs = <<>>

NextShow == Show \/ ShowAll \/ List \/ Exit

SpecShow == InitShow /\ [][NextShow]_vars

\* The record lines of the keychains whose counters wrap: a counter-based
\* key whose counter is 2^64 - 1, the next advance giving 0, and a
\* counter-based key whose name starts with the name of the first.
WrapLines ==
    { recordLine(<<"a", "b">>, 6, PadTo8(<<"m", "y">>), FALSE)
          \o <<SP>> \o FormatCounter(MaxUint64),
      recordLine(<<"a", "b", " ", "c">>, 6, PadTo8(<<"m", "y">>), TRUE) }

WrapFiles ==
    {writeLines(allLines(<<>>, ls), Len(ls)) :
        ls \in UNION {[1..k -> WrapLines] : k \in 0..MaxKeys}}

InitWrap ==
    /\ file \in WrapFiles
    /\ pre = <<>>
    /\ op = [cmd |-> "none"]
    /\ out = <<>>
    /\ exit = "ok"
    /\ hist = EmptyMap
    /\ procs = <<>>

SpecWrap == InitWrap /\ [][NextShow]_vars

(***************************************************************************)
(* The code generator as a function: its inputs are drawn at the start,    *)
(* one step applies it.                                                    *)
(***************************************************************************)

\* The digit counts readKeychain lets through.
DigitCounts == {6, 7, 8}

\* Truncated values around the powers of ten the codes are reduced by, and
\* the greatest one.
TruncValues ==
    {0, 1, 999999, 1000000, 1000001, 9999999, 10000000, 10000001, 99999999,
     100000000, 123456789, 2147483647}

\* An HMAC sum of 20 bytes whose four bytes at offset o hold v, with the top
\* bit `top` (0 or 128) on the first of them, and whose last byte has the high
\* four bits `high` and the low four bits o.
SumWith(v, o, top, high) ==
    [i \in 1..20 |->
        IF i = o + 1 THEN top + v \div 16777216
        ELSE IF i = o + 2 THEN (v \div 65536) % 256
        ELSE IF i = o + 3 THEN (v \div 256) % 256
        ELSE IF i = o + 4 THEN v % 256
        ELSE IF i = 20 THEN high * 16 + o
        ELSE 0]

\* The sums of the offsets 0, 7 and 15: the first, one inside, the last.
Sums ==
    {SumWith(v, o, top, high) :
        v \in TruncValues, o \in {0, 7, 15}, top \in {0, 128}, high \in {0, 15}}

InitTruncate ==
    /\ file = <<>>
    /\ pre = <<>>
    /\ op \in {[cmd |-> "truncate", sum |-> sum, digits |-> digits] :
                 sum \in Sums, digits \in DigitCounts}
    /\ out = <<>>
    /\ exit = "ok"
    /\ hist = EmptyMap
    /\ procs = <<>>

\* The second half of hotp and the Sprintf of code on an HMAC sum.
Truncate ==
    /\ op.cmd = "truncate" /\ out = <<>>
    /\ \E v \in {hotpValue(op.sum, op.digits)} :
           out' = <<[code |-> v, text |-> Sprintf0(op.digits, v)]>>
    /\ UNCHANGED <<file, pre, op, exit, hist, procs>>

NextTruncate == Truncate \/ Exit

SpecTruncate == InitTruncate /\ [][NextTruncate]_vars

\* The secret of RFC 4226, appendix D: the ASCII bytes 12345678901234567890.
RFC4226Secret ==
    <<"G", "E", "Z", "D", "G", "N", "B", "V", "G", "Y", "3", "T", "Q", "O", "J", "Q",
      "G", "E", "Z", "D", "G", "N", "B", "V", "G", "Y", "3", "T", "Q", "O", "J", "Q">>

\* The secrets typed: the one of the RFC in either case, and a short one.
HotpSecrets == {RFC4226Secret, ToLower(RFC4226Secret), PadTo8(<<"m", "y">>)}

\* The counters of the test vectors, and two that fill all eight bytes.
HotpCounters ==
    {Repeat(0, counterLen - 1) \o <<v>> : v \in 0..9}
        \cup {MaxUint64, AddOne(Repeat(0, counterLen - 1) \o <<9>>)}

InitHotp ==
    /\ file = <<>>
    /\ pre = <<>>
    /\ op \in {[cmd |-> "hotp", secret |-> secret, counter |-> counter, digits |-> digits] :
                 secret \in HotpSecrets, counter \in HotpCounters, digits \in DigitCounts}
    /\ out = <<>>
    /\ exit = "ok"
    /\ hist = EmptyMap
    /\ procs = <<>>

\* hotp on the decoded secret, and the Sprintf of code.
Hotp ==
    /\ op.cmd = "hotp" /\ out = <<>>
    /\ \E v \in {hotp(decodeKey(op.secret).raw, op.counter, op.digits)} :
           out' = <<[code |-> v, text |-> Sprintf0(op.digits, v)]>>
    /\ UNCHANGED <<file, pre, op, exit, hist, procs>>

NextHotp == Hotp \/ Exit

SpecHotp == InitHotp /\ [][NextHotp]_vars

\* The commands that rewrite the file, from an empty keychain.
NextStore == Add \/ Import \/ Exit

SpecStore == Init /\ [][NextStore]_vars

(***************************************************************************)
(* Invocations of "2fa name" side by side on one keychain file: each is a  *)
(* process of its own that reads the file once (readKeychain, each read of *)
(* ioutil.ReadFile a step) and then makes its calls of code, each with one *)
(* positioned write. No lock is held, so the steps of different            *)
(* invocations interleave freely.                                          *)
(***************************************************************************)

\* The keychain the invocations share: two counter-based keys.
ConcFile ==
    writeLines(allLines(<<>>,
        << recordLine(<<"a", "b">>, 6, PadTo8(<<"m", "y">>), TRUE),
           recordLine(<<"a", "b", " ", "c">>, 6, PadTo8(<<"m", "y">>), TRUE) >>), 2)

Procs == 1..NProcs

InitConc ==
    /\ file = ConcFile
    /\ pre = <<>>
    /\ op = [cmd |-> "none"]
    /\ out = <<>>
    /\ exit = "ok"
    /\ hist = EmptyMap
    /\ procs = [p \in Procs |-> [pc |-> "start", buf |-> <<>>, name |-> <<>>,
                                   c |-> readKeychain(<<>>),
                                   calls |-> <<>>, out |-> <<>>, exit |-> "ok"]]

\* readKeychain, ioutil.ReadFile: one read of the loop that ends when a read
\* returns no byte. A read appends what the file holds now past the bytes
\* read so far; the file is not locked, so what is read in the end may be
\* pieces of different contents of the file.
ReadFile(p) ==
    /\ procs[p].pc \in {"start", "read"}
    /\ \E more \in {SubSeq(file, Len(procs[p].buf) + 1, Len(file))} :
        procs' = [procs EXCEPT ![p].buf = procs[p].buf \o more,
                               ![p].pc = IF more = <<>> THEN "loaded" ELSE "read"]
    /\ UNCHANGED <<file, pre, op, out, exit, hist>>

\* main from the bytes read up to the first call of code: the lines are
\* parsed and the name, one of the two stored names, resolved.
Load(p) ==
    /\ procs[p].pc = "loaded"
    /\ \E c \in {readKeychain(procs[p].buf)} :
        \E name \in {<<"a", "b">>, <<"a", "b", " ", "c">>}, allNames \in MapOrders(c.keys) :
            \E calls \in {showCalls(c, name, allNames)} :
                procs' = [procs EXCEPT ![p] =
                    [pc |-> IF calls = <<>> THEN "done" ELSE "run",
                     name |-> name, c |-> c, calls |-> calls, out |-> <<>>,
                     exit |-> IF calls = <<>> THEN "no such key" ELSE "ok"]]
    /\ UNCHANGED <<file, pre, op, out, exit, hist>>

\* The next call of code of the invocation, on the keychain it loaded and the
\* file as it is now.
Advance(p) ==
    /\ procs[p].pc = "run"
    /\ \E me \in {procs[p]} :
        \E n \in {me.calls[Len(me.out) + 1]} :
            \E r \in {code(me.c, n, file, NoFail)} :
                LET last == Len(me.out) + 1 = Len(me.calls)
                IN  /\ file' = r.file
                    /\ procs' = [procs EXCEPT ![p] =
                        [me EXCEPT !.out = me.out \o r.out,
                                   !.pc = IF last \/ r.exit # "ok" THEN "done" ELSE "run",
                                   !.exit = IF r.exit # "ok" THEN r.exit
                                            ELSE IF last
                                            THEN showExit(me.c, me.name, Len(me.calls))
                                            ELSE "ok"]]
                    /\ hist' = Returned(hist, r.out)
    /\ UNCHANGED <<pre, op, out, exit>>

NextConc == \E p \in Procs : ReadFile(p) \/ Load(p) \/ Advance(p)

SpecConc == InitConc /\ [][NextConc]_vars

(***************************************************************************)
(* Invocations of add and import side by side with those of "2fa name":    *)
(* add and import read the file at the start (readKeychain) and write it   *)
(* whole at the end (rewriteSorted on the bytes read at the start); the    *)
(* prompt for the key and the reading of the export lie between the two.   *)
(* rewriteSorted is a step for OpenFile, which truncates the file, and a   *)
(* step for each WriteString, which writes one line at the position of the *)
(* invocation's own file descriptor.                                       *)
(***************************************************************************)

\* The invocations that take steps side by side with add and import.
NRacers == 2

\* What the invocations of add are given: a name that sorts before the stored
\* ones or an equal one, the secret typed.
RaceAdds ==
    {[name |-> name, f7 |-> FALSE, f8 |-> FALSE, typed |-> <<"m", "y", NL>>] :
        name \in {<<"a">>, <<"a", "b">>}}

\* The export the invocations of import are given: one counter-based service.
RaceExports == { <<Service(<<"a">>, <<"c">>, <<"M", "Y">>, 8, "HOTP")>> }

\* main and add from the bytes read up to the call of rewriteSorted: the
\* lines are parsed, the key typed and checked, the line formatted.
LoadAdd(p) ==
    /\ procs[p].pc = "loaded"
    /\ \E c \in {readKeychain(procs[p].buf)} :
        \E a \in RaceAdds, flagHotp \in BOOLEAN :
            \E r \in {add(file, c.data, a.name, a.f7, a.f8, flagHotp, a.typed, NoFail)} :
                \E line \in {recordLine(a.name, 6, PadTo8(StripSpace(a.typed)),
                                         flagHotp)} :
                    procs' = [procs EXCEPT ![p] =
                        [pc |-> IF r.exit = "ok" THEN "rewrite" ELSE "done",
                         name |-> a.name, c |-> c, calls |-> <<>>, out |-> <<>>,
                         exit |-> r.exit, fatal |-> "adding key",
                         newEntries |-> <<line>>,
                         lines |-> allLines(c.data, <<line>>), pos |-> 0]]
    /\ UNCHANGED <<file, pre, op, out, exit, hist>>

\* main and import2fas from the bytes read up to the call of rewriteSorted.
LoadImport(p) ==
    /\ procs[p].pc = "loaded"
    /\ \E c \in {readKeychain(procs[p].buf)} :
        \E services \in RaceExports :
            \E r \in {importEach(c.keys, services, 1, <<>>, <<>>)} :
                procs' = [procs EXCEPT ![p] =
                    [pc |-> IF Len(r.newEntries) > 0 THEN "rewrite" ELSE "done",
                     name |-> <<>>, c |-> c, calls |-> <<>>, out |-> <<>>,
                     exit |-> "ok", fatal |-> "rewriting keychain",
                     newEntries |-> r.newEntries,
                     lines |-> allLines(c.data, r.newEntries), pos |-> 0]]
    /\ UNCHANGED <<file, pre, op, out, exit, hist>>

\* rewriteSorted, os.OpenFile with O_TRUNC: the file is empty from here on,
\* or the open fails, the file is untouched and the invocation dies.
OpenTrunc(p) ==
    /\ procs[p].pc = "rewrite"
    /\ \E failed \in BOOLEAN :
        /\ file' = IF failed THEN file ELSE <<>>
        /\ procs' = [procs EXCEPT ![p].pc = IF failed THEN "done" ELSE "write",
                                    ![p].exit = IF failed THEN procs[p].fatal ELSE "ok"]
        /\ hist' = IF failed THEN hist ELSE EmptyMap
    /\ UNCHANGED <<pre, op, out, exit>>

\* rewriteSorted, the next f.WriteString(line + "\n"): the bytes go where the
\* descriptor of the invocation stands, whatever the file holds by now; a
\* failed write leaves none or one of them and the invocation dies.
WriteString(p) ==
    /\ procs[p].pc = "write"
    /\ \E me \in {procs[p]} :
        \E b \in {Append(me.lines[1], NL)}, written \in {0, 1, Len(me.lines[1]) + 1} :
            /\ file' = WriteAt(file, b, me.pos, written)
            /\ procs' = [procs EXCEPT ![p] =
                   [me EXCEPT !.lines = Tail(me.lines),
                              !.pos = me.pos + written,
                              !.pc = IF written = Len(b) /\ Len(me.lines) > 1
                                     THEN "write" ELSE "done",
                              !.exit = IF written = Len(b) THEN "ok" ELSE me.fatal]]
    /\ UNCHANGED <<pre, op, out, exit, hist>>

NextRace ==
    \E p \in 1..NRacers :
        \/ ReadFile(p) \/ Load(p) \/ Advance(p) \/ LoadAdd(p) \/ LoadImport(p)
        \/ OpenTrunc(p) \/ WriteString(p)

SpecRace == InitConc /\ [][NextRace]_vars

\* Keychain files as an editor or another program may leave them: good and
\* bad lines in any order, the last line with or without its line end.
MaxLoadLines == 2

\* A time-based record, a counter-based record whose name has a space, a blank
\* line, a line with no secret, a counter of 20 digits above 2^64 - 1, the
\* counter 2^64 - 1 under the name of the first record, a secret outside the
\* alphabet, a counter of 19 digits, a time-based and a counter-based record of
\* a file with CR LF line ends.
LoadLines ==
    { recordLine(<<"a", "b">>, 6, PadTo8(<<"m", "y">>), FALSE),
      recordLine(<<"a", "b", " ", "c">>, 7, PadTo8(<<"m", "y">>), TRUE),
      <<>>,
      recordLine(<<"a", "b">>, 8, <<>>, FALSE),
      recordLine(<<"A", "b">>, 6, PadTo8(<<"m", "y">>), FALSE)
          \o <<SP>> \o Repeat("9", counterLen),
      recordLine(<<"a", "b">>, 6, PadTo8(<<"M", "Y">>), FALSE)
          \o <<SP>> \o FormatCounter(MaxUint64),
      recordLine(<<"a", "b">>, 6, PadTo8(<<"m", "1">>), FALSE),
      recordLine(<<"a", "b">>, 6, PadTo8(<<"m", "y">>), FALSE)
          \o <<SP>> \o Repeat("0", counterLen - 1),
      recordLine(<<"a", "b">>, 6, PadTo8(<<"m", "y">>), FALSE) \o <<CR>>,
      recordLine(<<"a", "b">>, 6, PadTo8(<<"m", "y">>), TRUE) \o <<CR>> }

LoadFiles ==
    UNION { { Join(ls, NL) \o e : e \in {<<>>, <<NL>>} } :
                ls \in UNION {[1..k -> LoadLines] : k \in 0..MaxLoadLines} }

InitLoad ==
    /\ file \in LoadFiles
    /\ pre = <<>>
    /\ op = [cmd |-> "none"]
    /\ out = <<>>
    /\ exit = "ok"
    /\ hist = EmptyMap
    /\ procs = <<>>

NextLoad == List \/ ShowAll \/ Exit

SpecLoad == InitLoad /\ [][NextLoad]_vars

(***************************************************************************)
(* Properties                                                              *)
(***************************************************************************)

\* The keychain the invocation loaded, and the keychain a load of the file
\* as it is now yields.
Loaded == readKeychain(pre)

Reloaded == readKeychain(file)

\* The names of the record lines of a file content, in file order.
RECURSIVE RecordNamesFrom(_, _)
RecordNamesFrom(lines, i) ==
    IF i > Len(lines) THEN <<>>
    ELSE LET p == ParseLine(lines[i], 0)
         IN  (IF p.kind = "key" THEN <<p.name>> ELSE <<>>) \o RecordNamesFrom(lines, i + 1)

RecordNames(data) == RecordNamesFrom(SplitAfter(data), 1)

\* The names of the codes printed, in order.
OutNames == [i \in 1..Len(out) |-> out[i].name]

\* The stored names a query resolves to by the subsequence metric: the query
\* itself if it is a stored name, else every stored name that holds the
\* characters of the query in order, case ignored.
Resolved(keys, query) ==
    IF query \in DOMAIN keys THEN {query}
    ELSE {n \in DOMAIN keys : fuzzyMatches(ToLower(query), ToLower(n))}

\* C1: no counter is used for a returned code more than once: the counters of
\* the codes returned for a name, in the order returned, increase strictly.
C1_NoCounterReuse ==
    \A name \in DOMAIN hist :
        \A i \in 1..(Len(hist[name]) - 1) :
            DigitsLess(hist[name][i], hist[name][i + 1])

\* C4: the record lines of the file are in non-decreasing order of their
\* names compared case-insensitively.
C4_SortedByName ==
    LET names == RecordNames(file)
    IN  \A i \in 1..(Len(names) - 1) :
            StrLessEq(ToLower(names[i]), ToLower(names[i + 1]))

\* C5: an add that succeeded is read back by a load of the file: a record of
\* that name, digit count, decoded secret and mode (a counter-based one with
\* the stored counter 0), and no further malformed line.
C5_AddRoundTrip ==
    (op.cmd = "add" /\ exit = "ok") =>
        LET c == Reloaded
            size == IF op.f7 THEN 7 ELSE IF op.f8 THEN 8 ELSE 6
            secret == decodeKey(PadTo8(StripSpace(op.typed))).raw
        IN  /\ op.name \in DOMAIN c.keys
            /\ c.keys[op.name].digits = size
            /\ c.keys[op.name].raw = secret
            /\ op.hotp <=> c.keys[op.name].offset # 0
            /\ op.hotp => storedCounter(c, op.name) = Repeat(0, counterLen)
            /\ Len(c.warn) = Len(Loaded.warn)

\* The invocation met no failure of the file system.
NoFailure == exit \in {"ok", "multiple matches", "no such key"}

\* C6: show dispatches on the number of resolved matches: none is "no such
\* key" with the file untouched, one is the code of that key (its counter
\* advanced first if counter-based), several are one code for each match.
C6_ShowDispatch ==
    (op.cmd = "show" /\ NoFailure) =>
        LET c == Loaded
            M == Resolved(c.keys, op.name)
        IN  /\ M = {} => (exit = "no such key" /\ out = <<>> /\ file = pre)
            /\ Cardinality(M) = 1 =>
                /\ exit = "ok" /\ Len(out) = 1 /\ out[1].name \in M
                /\ out[1].raw = c.keys[out[1].name].raw
                /\ out[1].kind = "totp" => file = pre
                /\ out[1].kind = "hotp" =>
                    /\ out[1].ctr = Incr(storedCounter(c, out[1].name))
                    /\ storedCounter(Reloaded, out[1].name) = out[1].ctr
            /\ Cardinality(M) > 1 =>
                /\ Len(out) = Cardinality(M)
                /\ \A n \in M : Cardinality({i \in 1..Len(out) : out[i].name = n}) = 1

\* C7: a query that is a stored name gets the code of that key alone (no code
\* if the file system fails), and no byte of the file changes outside the
\* counter field of that key.
C7_ExactShortCircuit ==
    op.cmd = "show" =>
        \A c \in {Loaded}, after \in {Reloaded} :
            op.name \in DOMAIN c.keys =>
                /\ exit = "ok" => OutNames = <<op.name>>
                /\ exit # "ok" => (out = <<>> /\ ~NoFailure)
                /\ Len(file) = Len(pre)
                /\ \A i \in 1..Len(file) :
                    file[i] # pre[i] =>
                        /\ c.keys[op.name].offset # 0
                        /\ i > c.keys[op.name].offset
                        /\ i <= c.keys[op.name].offset + counterLen
                /\ \A n \in DOMAIN c.keys \ {op.name} :
                    c.keys[n].offset # 0 =>
                        storedCounter(after, n) = storedCounter(c, n)

\* C7 witness: a stored name that other stored names match as well was asked
\* for, and its counter advanced.
C7_Witness ==
    /\ op.cmd = "show" /\ op.name \in DOMAIN Loaded.keys /\ exit = "ok"
    /\ Cardinality({n \in DOMAIN Loaded.keys :
                        fuzzyMatches(ToLower(op.name), ToLower(n))}) > 1
    /\ \E n \in DOMAIN Loaded.keys \ {op.name} : Loaded.keys[n].offset # 0
    /\ file # pre

\* A line of the file carries a counter field: a fourth field or later of
\* counterLen digits, at its end.
CarriesCounter(line) ==
    LET f == Split(line, SP)
    IN  /\ Len(f) >= 4
        /\ Len(f[Len(f)]) = counterLen
        /\ \A i \in 1..counterLen : IsDigit(f[Len(f)][i])

\* The last line of a file content that holds the record of a name.
LineOf(data, name) ==
    LET lines == existingLines(data)
        at == {i \in 1..Len(lines) : ParseLine(lines[i], 0).kind = "key"
                                      /\ ParseLine(lines[i], 0).name = name}
    IN  lines[CHOOSE i \in at : \A j \in at : j <= i]

\* C8: showAll leaves every byte of the file as it was, prints a code for
\* the time-based records only and dashes for every counter-based record.
C8_ShowAllReadOnly ==
    op.cmd = "showAll" =>
        /\ file = pre
        /\ exit = "ok"
        /\ OutNames = sortStrings(DOMAIN Loaded.keys)
        /\ \A i \in 1..Len(out) :
            /\ CarriesCounter(LineOf(pre, out[i].name)) => out[i].kind = "dash"
            /\ ~CarriesCounter(LineOf(pre, out[i].name)) => out[i].kind = "totp"

\* C8 witness: showAll ran on a keychain with a counter-based record and a
\* time-based one.
C8_Witness ==
    /\ op.cmd = "showAll"
    /\ \E i, j \in 1..Len(out) : out[i].kind = "dash" /\ out[j].kind = "totp"

\* fuzzy.LevenshteinDistance, the distance score of a match.
RECURSIVE Levenshtein(_, _)
Levenshtein(s, t) ==
    IF s = <<>> THEN Len(t)
    ELSE IF t = <<>> THEN Len(s)
    ELSE LET sub == Levenshtein(Tail(s), Tail(t)) + (IF s[1] = t[1] THEN 0 ELSE 1)
             del == Levenshtein(Tail(s), t) + 1
             ins == Levenshtein(s, Tail(t)) + 1
             m == IF del < ins THEN del ELSE ins
         IN  IF sub < m THEN sub ELSE m

\* The matches of a query in ranked order: by distance, ties by name.
RECURSIVE Ranked(_, _)
Ranked(S, query) ==
    IF S = {} THEN <<>>
    ELSE LET d(n) == Levenshtein(ToLower(query), ToLower(n))
             best == CHOOSE x \in S :
                        \A y \in S : d(x) < d(y) \/ (d(x) = d(y) /\ StrLessEq(x, y))
         IN  <<best>> \o Ranked(S \ {best}, query)

\* C9: the names a fuzzy query resolves to come in ranked order.
C9_RankedOrder ==
    LET M == Resolved(Loaded.keys, op.name)
    IN  (/\ op.cmd = "show" /\ NoFailure
         /\ op.name \notin DOMAIN Loaded.keys
         /\ \A m, n \in M : ToLower(m) = ToLower(n) => m = n)
            => OutNames = Ranked(M, op.name)

\* The services of an export that import2fas is to skip: the name is stored
\* already or the secret does not decode.
ToSkip(keys, service) ==
    \/ getServiceName(service) \in DOMAIN keys
    \/ ~decodeKey(PadTo8(StripSpace(service.Secret))).ok

\* C10: import skips the services whose name is stored or whose secret is
\* invalid, merges one line for every other service, and the count it
\* reports is the number of new records a load of the file returns.
C10_ImportCount ==
    (op.cmd = "import" /\ exit = "ok") =>
        LET named == SelectSeq(op.services, LAMBDA sv : getServiceName(sv) # <<>>)
            kept == SelectSeq(named, LAMBDA sv : ~ToSkip(Loaded.keys, sv))
        IN  /\ out[1].imported = Len(kept)
            /\ LineCount(file) = LineCount(pre) + Len(kept)
            /\ out[1].imported
                 = Cardinality(DOMAIN Reloaded.keys \ DOMAIN Loaded.keys)

\* C2: a counter-based code is returned only with its counter in the file,
\* and a call of code whose open, write or close fails returns no code: the
\* codes printed are those of the calls before it.
C2_CodeAfterWrite ==
    op.cmd = "show" =>
        \A c \in {Loaded} :
            /\ \A i \in 1..Len(out) :
                out[i].kind = "hotp" =>
                    /\ out[i].ctr = Incr(storedCounter(c, out[i].name))
                    /\ SubSeq(file, c.keys[out[i].name].offset + 1,
                                    c.keys[out[i].name].offset + counterLen)
                         = FormatCounter(out[i].ctr)
            /\ (/\ op.failAt \in 1..Len(op.calls)
                /\ c.keys[op.calls[op.failAt]].offset # 0)
                    => (Len(out) = op.failAt - 1 /\ ~NoFailure)

\* C2 witness: of two counter advances the second one failed after the code
\* of the first was printed.
C2_Witness ==
    /\ op.cmd = "show" /\ op.failAt = 2 /\ exit = "updating keychain"
    /\ Len(out) = 1 /\ out[1].kind = "hotp"
    /\ Loaded.keys[op.calls[2]].offset # 0

\* C3: invocations side by side race on the counter. Each returns the code
\* of the counter it read plus one, whatever was written since it read, and
\* the file holds the counter of the last positioned write.
C3_LastWriterWins ==
    /\ \A p \in DOMAIN procs :
        \A i \in 1..Len(procs[p].out) :
            procs[p].out[i].ctr
                = Incr(storedCounter(procs[p].c, procs[p].out[i].name))
    /\ procs # <<>> =>
        \A name \in DOMAIN hist :
            storedCounter(Reloaded, name) = hist[name][Len(hist[name])]

\* C3 witness: two invocations read the same counter N of a key and both
\* returned the code of N+1, the file holds N+1, and a write put a smaller
\* counter where a greater one was.
C3_Witness ==
    \E p, q \in DOMAIN procs : \E name \in DOMAIN hist :
        /\ p # q /\ procs[p].pc = "done" /\ procs[q].pc = "done"
        /\ procs[p].calls = <<name>> /\ procs[q].calls = <<name>>
        /\ storedCounter(procs[p].c, name) = storedCounter(procs[q].c, name)
        /\ Len(procs[p].out) = 1 /\ Len(procs[q].out) = 1
        /\ procs[p].out[1].ctr = Incr(storedCounter(procs[p].c, name))
        /\ procs[q].out[1].ctr = procs[p].out[1].ctr
        /\ storedCounter(Reloaded, name) = procs[p].out[1].ctr
        /\ \E i \in 1..(Len(hist[name]) - 1) :
            DigitsLess(hist[name][i + 1], hist[name][i])

\* A field of counterLen decimal digits.
IsCounterField(s) == Len(s) = counterLen /\ \A i \in 1..Len(s) : IsDigit(s[i])

\* The readings of a line (its line end removed) as name digitCount secret
\* [counter]: a digit count 6, 7 or 8 after the name, a non-empty secret that
\* is valid base32, and at most one more field, of 20 decimal digits.
ShapesOf(line) ==
    LET f == Split(line, SP)
        at == {d \in 2..(Len(f) - 1) :
                /\ f[d] \in {<<"6">>, <<"7">>, <<"8">>}
                /\ f[d + 1] # <<>> /\ decodeKey(f[d + 1]).ok
                /\ \/ Len(f) = d + 1
                   \/ Len(f) = d + 2 /\ IsCounterField(f[d + 2])}
    IN  {[name |-> Join(SubSeq(f, 1, d - 1), SP), digits |-> Ord[f[d][1]] - Ord["0"],
          raw |-> decodeKey(f[d + 1]).raw,
          counter |-> IF Len(f) = d + 2 THEN f[d + 2] ELSE <<>>] : d \in at}

\* The readings whose counter, if any, is a value of 64 bits.
ValidShapesOf(line) ==
    {sh \in ShapesOf(line) :
        sh.counter # <<>> => DigitsLessEq(Digits(sh.counter), MaxUint64)}

\* The line numbers logged as malformed.
Warned(c) == {c.warn[i] : i \in 1..Len(c.warn)}

\* C11 as claimed: every non-empty line that has no reading is logged as
\* malformed with its number, no other line is, and every line that has a
\* reading gives a record under its name.
C11_BadLinesSkipped ==
    op.cmd = "list" =>
        \A c \in {Loaded}, lines \in {SplitAfter(pre)} :
            \A i \in 1..Len(lines) :
                /\ i \in Warned(c)
                     <=> (TrimNL(lines[i]) # <<>> /\ ShapesOf(TrimNL(lines[i])) = {})
                /\ \A sh \in ShapesOf(TrimNL(lines[i])) : sh.name \in DOMAIN c.keys

\* C11 amended: the counter of the shape is 20 decimal digits of a value of
\* at most 2^64 - 1. Every non-empty line with no such reading is logged
\* with its number and no other line is; the records returned are those of
\* the lines that have a reading, each under its name with the digit count,
\* secret and mode of the last such line of that name.
C11_UnparsableLinesSkipped ==
    op.cmd = "list" =>
        \A c \in {Loaded}, lines \in {SplitAfter(pre)} :
            /\ \A i \in 1..Len(lines) :
                i \in Warned(c)
                    <=> (TrimNL(lines[i]) # <<>> /\ ValidShapesOf(TrimNL(lines[i])) = {})
            /\ DOMAIN c.keys
                 = {sh.name : sh \in UNION {ValidShapesOf(TrimNL(lines[i])) :
                                                i \in 1..Len(lines)}}
            /\ \A i \in 1..Len(lines) :
                \A sh \in ValidShapesOf(TrimNL(lines[i])) :
                    (\A j \in (i + 1)..Len(lines) :
                        \A later \in ValidShapesOf(TrimNL(lines[j])) : later.name # sh.name)
                    => /\ c.keys[sh.name].digits = sh.digits
                       /\ c.keys[sh.name].raw = sh.raw
                       /\ c.keys[sh.name].offset # 0 <=> sh.counter # <<>>
            /\ out = sortStrings(DOMAIN c.keys)

\* C11 witness: a malformed line was logged and a line after it was returned
\* as a record.
C11_Witness ==
    /\ op.cmd = "list"
    /\ \E i \in Warned(Loaded) :
        \E j \in (i + 1)..Len(SplitAfter(pre)) :
            \E sh \in ValidShapesOf(TrimNL(SplitAfter(pre)[j])) : sh.name \in DOMAIN Loaded.keys

\* The byte offset at which line i of the pieces `lines` of a file starts.
LineStart(lines, i) == Len(Concat(SubSeq(lines, 1, i - 1)))

\* The number of the last line of the file that has a reading under `name`.
LastLineOf(lines, name) ==
    CHOOSE i \in 1..Len(lines) :
        /\ \E sh \in ValidShapesOf(TrimNL(lines[i])) : sh.name = name
        /\ \A j \in (i + 1)..Len(lines) :
            \A sh \in ValidShapesOf(TrimNL(lines[j])) : sh.name # name

\* C15: after a load the offset of a counter-based record is not 0 and
\* addresses the 20 digits that end the last line of its name in the bytes
\* kept, and code takes a record for counter-based exactly when that line
\* carries a counter field.
C15_OffsetAddressesCounter ==
    op.cmd = "list" =>
        \A c \in {Loaded}, lines \in {SplitAfter(pre)} :
            \A name \in DOMAIN c.keys :
                \A i \in {LastLineOf(lines, name)} :
                    \A sh \in {x \in ValidShapesOf(TrimNL(lines[i])) : x.name = name} :
                        /\ sh.counter = <<>> =>
                            /\ c.keys[name].offset = 0
                            /\ code(c, name, pre, NoFail).out[1].kind = "totp"
                        /\ sh.counter # <<>> =>
                            /\ c.keys[name].offset # 0
                            /\ c.keys[name].offset
                                 = LineStart(lines, i) + Len(TrimNL(lines[i])) - counterLen
                            /\ SubSeq(c.data, c.keys[name].offset + 1,
                                      c.keys[name].offset + counterLen) = sh.counter
                            /\ IsCounterField(SubSeq(c.data, c.keys[name].offset + 1,
                                                     c.keys[name].offset + counterLen))
                            /\ code(c, name, pre, NoFail).out[1].kind = "hotp"

\* C15 witness: a counter-based record was loaded from the last line of a
\* file that does not end with a line end, a malformed line before it.
C15_Witness ==
    /\ op.cmd = "list" /\ pre # <<>> /\ pre[Len(pre)] # NL
    /\ 1 \in Warned(Loaded)
    /\ \E name \in DOMAIN Loaded.keys :
        /\ Loaded.keys[name].offset # 0
        /\ LastLineOf(SplitAfter(pre), name) = Len(SplitAfter(pre))

\* The record lines an invocation of add or import2fas hands to rewriteSorted.
NewLines ==
    IF op.cmd = "add"
    THEN <<recordLine(op.name, IF op.f7 THEN 7 ELSE IF op.f8 THEN 8 ELSE 6,
                      PadTo8(StripSpace(op.typed)), op.hotp)>>
    ELSE importEach(Loaded.keys, op.services, 1, <<>>, <<>>).newEntries

\* C12: the file a completed rewrite leaves is a fixed point of the rewrite:
\* a second rewrite that takes it as its existing lines and adds nothing
\* writes the same bytes.
C12_RewriteIdempotent ==
    (op.cmd \in {"add", "import"} /\ exit = "ok" /\ NewLines # <<>>)
        => rewriteSorted(file, file, <<>>, NoFail).file = file

\* C12 witness: a rewrite wrote two records whose names are equal but for
\* case, or whose names share their first field.
C12_Witness ==
    /\ op.cmd \in {"add", "import"} /\ exit = "ok" /\ file # pre
    /\ \E i, j \in 1..Len(existingLines(file)) :
        /\ i # j
        /\ existingLines(file)[i] # existingLines(file)[j]
        /\ ~lineLess(existingLines(file)[i], existingLines(file)[j])
        /\ ~lineLess(existingLines(file)[j], existingLines(file)[i])

\* The multiset of the lines of a sequence: each line with its number of
\* occurrences.
LineBag(ls) ==
    [l \in {ls[i] : i \in DOMAIN ls} |-> Cardinality({i \in DOMAIN ls : ls[i] = l})]

\* C17: add and import preserve the existing records of a keychain that
\* holds some: once rewriteSorted has opened the file and written, to the end
\* or up to a failed write, the multiset of the non-empty lines of the file
\* is the multiset of the non-empty lines the file held at load together with
\* the new lines.
C17_RecordsPreserved ==
    (/\ op.cmd \in {"add", "import"} /\ NewLines # <<>>
     /\ existingLines(pre) # <<>>
     /\ exit = "ok" \/ op.how = "write")
        => LineBag(existingLines(file)) = LineBag(existingLines(pre) \o NewLines)

\* C19: names are unique in the store: no two record lines of the file have
\* the same name.
C19_NamesUnique ==
    \A i, j \in 1..Len(RecordNames(file)) :
        i # j => RecordNames(file)[i] # RecordNames(file)[j]

\* The positions (1-based) of the counter fields of the counter-based keys
\* among `names` in a loaded keychain.
FieldBytes(c, names) ==
    UNION { (c.keys[names[i]].offset + 1)..(c.keys[names[i]].offset + counterLen) :
                i \in {h \in 1..Len(names) : c.keys[names[h]].offset # 0} }

\* C16: the counter advances of one invocation change only bytes of the
\* counter fields of the keys advanced: the length of the file, the order of
\* its lines and every byte outside these fields are as they were, and the
\* field of every counter-based key holds counterLen decimal digits afterwards.
C16_AdvanceFrame ==
    op.cmd = "show" =>
        \A c \in {Loaded} :
            /\ Len(file) = Len(pre)
            /\ \A b \in 1..Len(file) :
                   file[b] # pre[b] => b \in FieldBytes(c, op.calls)
            /\ RecordNames(file) = RecordNames(pre)
            /\ \A name \in DOMAIN c.keys :
                   c.keys[name].offset # 0 =>
                       IsCounterField(SubSeq(file, c.keys[name].offset + 1,
                                                   c.keys[name].offset + counterLen))

\* C16 witness: the counter 2^64 - 1 of a key was advanced in a file of
\* several lines: the code of counter 0 was printed and the field holds 0.
C16_Witness ==
    /\ op.cmd = "show" /\ exit = "ok" /\ file # pre
    /\ Len(existingLines(file)) > 1
    /\ \E i \in 1..Len(out) :
        /\ out[i].kind = "hotp"
        /\ storedCounter(Loaded, out[i].name) = MaxUint64
        /\ storedCounter(Reloaded, out[i].name) = Repeat(0, counterLen)

\* The number a string of decimal digits spells.
RECURSIVE Atoi(_)
Atoi(s) == IF s = <<>> THEN 0 ELSE Atoi(SubSeq(s, 1, Len(s) - 1)) * 10 + (Ord[s[Len(s)]] - 48)

\* C13: for the digit counts 6, 7 and 8 and every truncated HMAC value the
\* numeric code is below 10^digitCount, and the rendered code has exactly
\* digitCount characters: the digits of the code, zeros to their left.
C13_CodeWidth ==
    (op.cmd \in {"truncate", "hotp"} /\ out # <<>>) =>
        /\ out[1].code >= 0 /\ out[1].code < 10^(op.digits)
        /\ Len(out[1].text) = op.digits
        /\ \A i \in 1..Len(out[1].text) : IsDigit(out[1].text[i])
        /\ Atoi(out[1].text) = out[1].code

\* C13 witness: a six-digit code of a sum whose four bytes have the top bit
\* set and hold a value of more than six digits: the code is rendered with
\* zeros to its left.
C13_Witness ==
    /\ op.cmd = "truncate" /\ out # <<>> /\ op.digits = 6
    /\ op.sum[(op.sum[20] % 16) + 1] >= 128
    /\ dynamicTruncate(op.sum) > 999999
    /\ out[1].code > 0 /\ out[1].text[1] = "0"

\* The codes of RFC 4226, appendix D, for the counters 0..9.
RFC4226Codes ==
    <<755224, 287082, 359152, 969429, 338314, 254676, 287922, 162583, 399871, 520489>>

\* C14: hotp with six digits on the secret of RFC 4226 gives the code of the
\* test vectors for each of the counters 0..9.
C14_RFC4226Vectors ==
    (op.cmd = "hotp" /\ out # <<>> /\ ToUpper(op.secret) = RFC4226Secret /\ op.digits = 6) =>
        \A v \in 0..9 :
            op.counter = Repeat(0, counterLen - 1) \o <<v>> =>
                out[1].code = RFC4226Codes[v + 1]

\* C14 witness: the code 520489 of counter 9 was computed from the secret
\* typed in lower case.
C14_Witness ==
    /\ op.cmd = "hotp" /\ out # <<>> /\ op.digits = 6
    /\ op.secret = ToLower(RFC4226Secret)
    /\ op.counter = Repeat(0, counterLen - 1) \o <<9>>
    /\ out[1].code = 520489

\* A record line without its counter field.
Stem(line) ==
    IF CarriesCounter(line) THEN SubSeq(line, 1, Len(line) - counterLen) ELSE line

\* Every line a completed add or import wrote is in the file, whatever its
\* counter is now.
NoLineLost ==
    \A p \in DOMAIN procs :
        ("newEntries" \in DOMAIN procs[p] /\ procs[p].pc = "done"
             /\ procs[p].exit = "ok") =>
            \A i \in 1..Len(procs[p].newEntries) :
                \E j \in 1..Len(existingLines(file)) :
                    Stem(existingLines(file)[j]) = Stem(procs[p].newEntries[i])

\* A counter advance changes no byte of the file as it is at the write but
\* bytes of the counter field of the line of the key advanced.
AdvanceInField ==
    \A p \in DOMAIN procs :
        Advance(p) =>
            \A c \in {readKeychain(file)} :
                \A n \in {procs[p].calls[Len(procs[p].out) + 1]} :
                    \A b \in 1..Len(file') :
                        (b > Len(file) \/ file'[b] # file[b]) =>
                            /\ n \in DOMAIN c.keys
                            /\ c.keys[n].offset # 0
                            /\ b \in (c.keys[n].offset + 1)..(c.keys[n].offset + counterLen)

\* C18: under any interleaving of invocations of add, import and show on one
\* keychain file nothing is lost or altered but the counter of a key being
\* advanced: no line a completed add or import wrote is lost, and no byte
\* outside the counter field of the line of the key advanced is overwritten.
C18_OnlyCounterRaces == []NoLineLost /\ [][AdvanceInField]_vars

====
